---- MODULE Spec2Model ----
(***************************************************************************)
(* SimpleRenderer of src-tauri/src/babylon_native_simple.{hpp,cpp}, the    *)
(* _WIN32 build (the only one in which render_frame's GL calls and the     *)
(* D3D11 members exist).                                                   *)
(*                                                                         *)
(* Number representation (floats are modelled as scaled integers):         *)
(*   - delta times and the clock count ticks of pi/6 seconds;              *)
(*   - a cube's animation_time (its phase) counts units of pi/6 radians,   *)
(*     so  phase += delta_time * rotation_speed  is exact;                 *)
(*   - camera_orbit_angle counts units of pi/12 radians, so that           *)
(*     delta_time * 0.5f  is exact and one revolution is 24 units;         *)
(*   - positions, sizes, colors and sines are in thousandths.              *)
(*                                                                         *)
(* set_clear_color, which writes clear_color and nothing else, is not an   *)
(* action of the model; clear_color keeps its initial value.               *)
(***************************************************************************)
EXTENDS Integers, Sequences, FiniteSets, TLC

\* ---------------------------------------------------------------- bounds
MaxCubes   == 2      \* cubes.size() never exceeds this in the model
MaxOps     == 5      \* operations called on one renderer, destruction included
MaxClock   == 1      \* ticks of the wall clock
MaxDevices == 2      \* successful D3D11CreateDeviceAndSwapChain calls

\* ------------------------------------------------------ program constants
TWO_PI        == 24     \* 2.0f * 3.14159f, in units of pi/12
ORBIT_SPEED   == 1      \* 0.5f rad/s = one pi/12 unit per pi/6-second tick
GREEN_OFFSET  == 4      \* 2.094f rad = 4 * pi/6
BLUE_OFFSET   == 8      \* 4.188f rad = 8 * pi/6
PHASE_PERIOD  == 12     \* period of sin in units of pi/6
NULL          == 0      \* nullptr
Unset         == -1     \* the function-local static last_time before its initialisation

\* ---------------------------------------------------------------- inputs
Sizes       == {<<1024, 768>>}               \* resize(w, h)
Speeds      == {1000, 3000}                  \* 1.0f + [0,1] * 2.0f, thousandths: add_cube's draws
FirstSpeed  == 2000                          \* the draw made for the constructor's cube
CubeArgs    == {<<0, 2000, 0, 500>>}         \* add_cube(x, y, z, size)
MoveArgs    == {<<500, 1000, -500>>}         \* move_object(_, x, y, z)
DeltaTimes  == {-1, 50}                      \* update_animation(delta_time) through the bridge:
                                             \* backwards, and more than two revolutions
OrbitArgs   == {<<60, 20000, 8000>>}         \* set_camera_orbit(angle, distance, height)
Handles     == {NULL, 7}                     \* set_window_handle(handle)

VARIABLES
    width, height, frame_count, clear_color, native_rendering_enabled,
    cubes, animation_time, camera_orbit_angle, camera_distance, camera_height,
    animation_enabled, directx_initialized,
    window_handle, d3d_device, d3d_context, swap_chain,
    last_time,      \* static local of render_frame
    frame_time,     \* the clock at the latest render_frame call
    now,            \* std::chrono::high_resolution_clock
    releases,       \* per created device triple: the Release() calls made on each object
    destroyed,      \* the destructor has run
    op,             \* the operation that ran last
    args,           \* its index or delta-time argument
    result,         \* what it returned
    calls,          \* what it executed, in order
    nops,           \* number of operations called so far
    origin          \* per cube: the y it was created with, and whether move_object moved it

rvars == <<width, height, frame_count, clear_color, native_rendering_enabled,
           cubes, animation_time, camera_orbit_angle, camera_distance, camera_height,
           animation_enabled, directx_initialized,
           window_handle, d3d_device, d3d_context, swap_chain>>
vars == <<rvars, last_time, frame_time, now, releases, destroyed, op, args, result, calls, nops, origin>>

\* ------------------------------------------------------------- arithmetic
\* sin of k*pi/6, in thousandths
SinTable == <<0, 500, 866, 1000, 866, 500, 0, -500, -866, -1000, -866, -500>>
sin(phase) == SinTable[(phase % PHASE_PERIOD) + 1]

\* x * 0.5f for a value in thousandths (every SinTable entry is even)
Half(v) == IF v >= 0 THEN v \div 2 ELSE -((-v) \div 2)

\* the phase advance without the rotation_speed factor
Scale_unscaled(delta_time, speed) == delta_time

\* thousandths * ticks -> units of pi/6 (speeds are whole multiples of 1.0)
Scale(delta_time, speed) == delta_time * (speed \div 1000)

\* ------------------------------------------------------------------ cubes
\* SimpleRenderer::add_cube: the Cube pushed onto cubes
add_cube(x, y, z, size, speed) ==
    [x |-> x, y |-> y, z |-> z, size |-> size,
     color |-> <<1000, 0, 0>>,
     rotation_speed |-> speed,
     animation_time |-> 0]

\* body of the for loop of SimpleRenderer::update_animation, for one cube
step_cube(cube, delta_time) ==
    LET phase  == cube.animation_time + Scale(delta_time, cube.rotation_speed)
        base_y == cube.y
    IN  [cube EXCEPT
            !.animation_time = phase,
            !.y     = base_y + Half(sin(phase)),
            !.color = << 500 + Half(sin(phase)),
                         500 + Half(sin(phase + GREEN_OFFSET)),
                         500 + Half(sin(phase + BLUE_OFFSET)) >>]

\* the camera part of SimpleRenderer::update_animation
step_camera(angle, delta_time) ==
    LET a == angle + delta_time * ORBIT_SPEED
    IN  IF a > TWO_PI THEN a - TWO_PI ELSE a

\* SimpleRenderer::update_animation, as a state change
update_animation(delta_time) ==
    /\ animation_time' = animation_time + delta_time
    /\ camera_orbit_angle' = step_camera(camera_orbit_angle, delta_time)
    /\ cubes' = [i \in 1..Len(cubes) |-> step_cube(cubes[i], delta_time)]

\* move_object taking its index as one-based
move_object_one_based(cs, index, x, y, z) ==
    IF index >= 1 /\ index <= Len(cs)
    THEN [cs EXCEPT ![index].x = x, ![index].y = y, ![index].z = z]
    ELSE cs

\* SimpleRenderer::move_object on the cube vector; index is a size_t
move_object(cs, index, x, y, z) ==
    IF index < Len(cs)
    THEN [cs EXCEPT ![index + 1].x = x, ![index + 1].y = y, ![index + 1].z = z]
    ELSE cs

\* ------------------------------------------------------------------- mode
NativeReady  == "Native DirectX C++ Renderer (Animated)"
NativeInit   == "Native DirectX C++ Renderer (Initializing...)"
Fallback     == "OpenGL Fallback C++ Renderer"

\* get_renderer_info deciding on directx_initialized alone
get_renderer_info_directx_first(native, directx) ==
    IF directx THEN NativeReady
    ELSE IF native THEN NativeInit
    ELSE Fallback

\* SimpleRenderer::get_renderer_info
get_renderer_info(native, directx) ==
    IF native /\ directx THEN NativeReady
    ELSE IF native THEN NativeInit
    ELSE Fallback

Paths == {"native_device", "native_pending", "fallback"}

\* render_frame taking the native branch on directx_initialized alone
render_paths_by_directx(native, directx) ==
    IF directx THEN <<"native_device">>
    ELSE IF native THEN <<"native_pending">>
    ELSE <<"fallback">>

\* render_frame with the first else missing
render_paths_fallthrough(native, directx) ==
    (IF native /\ directx THEN <<"native_device">> ELSE <<>>)
    \o (IF native THEN <<"native_pending">> ELSE <<"fallback">>)

\* the if / else if / else of SimpleRenderer::render_frame: the branches entered
render_paths(native, directx) ==
    IF native /\ directx THEN <<"native_device">>
    ELSE IF native THEN <<"native_pending">>
    ELSE <<"fallback">>

\* the native branch clears and presents only with a context and a swap chain
present(path) ==
    IF path = <<"native_device">> /\ d3d_context # NULL /\ swap_chain # NULL
    THEN <<"clear_and_present">> ELSE <<>>

\* render_frame stepping the animation after the dispatch
frame_calls_step_last(animated, path) ==
    path \o present(path) \o (IF animated THEN <<"update_animation">> ELSE <<>>)

\* the statements of SimpleRenderer::render_frame in the order they execute:
\* the guarded update_animation call, then the branch taken
frame_calls(animated, path) ==
    (IF animated THEN <<"update_animation">> ELSE <<>>) \o path \o present(path)

\* enable_native_rendering without the rollback of line 171
enable_result_sticky(ok) == TRUE

\* value of native_rendering_enabled when enable_native_rendering returns
enable_result(ok) == IF ok THEN TRUE ELSE FALSE

\* enable_native_rendering without the assignment of line 168
enable_directx_forgotten(ok, directx) == directx

\* value of directx_initialized when enable_native_rendering returns
enable_directx(ok, directx) == IF ok THEN TRUE ELSE directx

\* ------------------------------------------------------ device collaborator
NoReleases == [swap_chain |-> 0, d3d_context |-> 0, d3d_device |-> 0]

\* return value of SimpleRenderer::initialize_d3d11; hr is SUCCEEDED(hr)
init_ok(hr) == window_handle # NULL /\ hr

\* SimpleRenderer::initialize_d3d11: the out-parameters of
\* D3D11CreateDeviceAndSwapChain are overwritten with the new objects on
\* success; on failure the API either leaves them or nulls them (nulled).
initialize_d3d11(hr, nulled) ==
    IF init_ok(hr)
    THEN /\ Len(releases) < MaxDevices
         /\ releases' = Append(releases, NoReleases)
         /\ swap_chain'  = Len(releases) + 1
         /\ d3d_device'  = Len(releases) + 1
         /\ d3d_context' = Len(releases) + 1
    ELSE /\ UNCHANGED releases
         /\ IF window_handle # NULL /\ nulled
            THEN swap_chain' = NULL /\ d3d_device' = NULL /\ d3d_context' = NULL
            ELSE UNCHANGED <<swap_chain, d3d_device, d3d_context>>

\* one Release() call on object f of device triple p (no call on nullptr)
Release(rel, p, f) == IF p = NULL THEN rel ELSE [rel EXCEPT ![p][f] = @ + 1]

\* ---------------------------------------------------------------- actions
Devices == <<window_handle, d3d_device, d3d_context, swap_chain, releases>>
Scene   == <<cubes, origin, animation_time, camera_orbit_angle>>
Camera  == <<camera_distance, camera_height>>
Mode    == <<native_rendering_enabled, directx_initialized>>

\* create_simple_renderer(w, h): the constructor adds the default cube
Init ==
    /\ width = 800 /\ height = 600
    /\ frame_count = 0
    /\ clear_color = <<100, 100, 150>>
    /\ native_rendering_enabled = FALSE
    /\ cubes = <<add_cube(0, 0, 0, 1000, FirstSpeed)>>
    /\ origin = <<[y |-> 0, moved |-> FALSE]>>
    /\ animation_time = 0
    /\ camera_orbit_angle = 0
    /\ camera_distance = 10000
    /\ camera_height = 5000
    /\ animation_enabled = TRUE
    /\ directx_initialized = FALSE
    /\ window_handle = NULL /\ d3d_device = NULL /\ d3d_context = NULL /\ swap_chain = NULL
    /\ last_time = Unset
    /\ frame_time = Unset
    /\ now = 0
    /\ releases = <<>>
    /\ destroyed = FALSE
    /\ op = "create_simple_renderer"
    /\ args = <<>>
    /\ result = "void"
    /\ calls = <<>>
    /\ nops = 0

\* an operation is called on a live renderer
Called == ~destroyed /\ nops < MaxOps /\ nops' = nops + 1

\* time passes between two calls
Tick ==
    /\ ~destroyed
    /\ now < MaxClock
    /\ now' = now + 1
    /\ UNCHANGED <<rvars, last_time, frame_time, releases, destroyed, op, args, result, calls,
                   nops, origin>>

RenderFrame ==
    /\ Called
    /\ frame_count' = frame_count + 1
    /\ IF animation_enabled
       THEN /\ LET started == IF last_time = Unset THEN now ELSE last_time
                IN  update_animation(now - started)
            /\ last_time' = now
       ELSE UNCHANGED <<cubes, animation_time, camera_orbit_angle, last_time>>
    /\ calls' = frame_calls(animation_enabled,
                             render_paths(native_rendering_enabled, directx_initialized))
    /\ frame_time' = now
    /\ op' = "render_frame" /\ args' = <<>>
    /\ result' = TRUE
    /\ UNCHANGED <<width, height, clear_color, Mode, Camera, animation_enabled,
                   Devices, now, destroyed, origin>>

Resize ==
    /\ Called
    /\ \E s \in Sizes : width' = s[1] /\ height' = s[2]
    /\ op' = "resize" /\ result' = "void" /\ calls' = <<>> /\ args' = <<>>
    /\ UNCHANGED <<frame_count, clear_color, Mode, Scene, Camera, animation_enabled,
                   Devices, last_time, frame_time, now, destroyed>>

AddCube ==
    /\ Called
    /\ Len(cubes) < MaxCubes
    /\ \E a \in CubeArgs, speed \in Speeds :
          /\ cubes' = Append(cubes, add_cube(a[1], a[2], a[3], a[4], speed))
          /\ origin' = Append(origin, [y |-> a[2], moved |-> FALSE])
    /\ op' = "add_cube" /\ result' = "void" /\ calls' = <<>> /\ args' = <<>>
    /\ UNCHANGED <<width, height, frame_count, clear_color, Mode, animation_time,
                   camera_orbit_angle, Camera, animation_enabled,
                   Devices, last_time, frame_time, now, destroyed>>

EnableNativeRendering ==
    /\ Called
    /\ \E hr \in BOOLEAN, nulled \in BOOLEAN :
          /\ initialize_d3d11(hr, nulled)
          /\ native_rendering_enabled' = enable_result(init_ok(hr))
          /\ directx_initialized' = enable_directx(init_ok(hr), directx_initialized)
          /\ result' = "void"
          /\ calls' = <<"initialize_d3d11", IF init_ok(hr) THEN "ok" ELSE "failed">>
    /\ op' = "enable_native_rendering" /\ args' = <<>>
    /\ UNCHANGED <<width, height, frame_count, clear_color, Scene, Camera,
                   animation_enabled, window_handle, last_time, frame_time, now, destroyed>>

SetWindowHandle ==
    /\ Called
    /\ \E h \in Handles : window_handle' = h
    /\ op' = "set_window_handle" /\ result' = "void" /\ calls' = <<>> /\ args' = <<>>
    /\ UNCHANGED <<width, height, frame_count, clear_color, Mode, Scene, Camera,
                   animation_enabled, d3d_device, d3d_context, swap_chain, releases,
                   last_time, frame_time, now, destroyed>>

\* the exported initialize_d3d11(renderer)
InitializeD3D11 ==
    /\ Called
    /\ \E hr \in BOOLEAN, nulled \in BOOLEAN :
          /\ initialize_d3d11(hr, nulled)
          /\ result' = init_ok(hr)
          /\ calls' = <<"initialize_d3d11", IF init_ok(hr) THEN "ok" ELSE "failed">>
    /\ op' = "initialize_d3d11" /\ args' = <<>>
    /\ UNCHANGED <<width, height, frame_count, clear_color, Mode, Scene, Camera,
                   animation_enabled, window_handle, last_time, frame_time, now, destroyed>>

GetFrameCount ==
    /\ Called
    /\ op' = "get_frame_count" /\ result' = frame_count /\ calls' = <<>> /\ args' = <<>>
    /\ UNCHANGED <<rvars, last_time, frame_time, now, releases, destroyed, origin>>

GetRendererInfo ==
    /\ Called
    /\ op' = "get_renderer_info"
    /\ result' = get_renderer_info(native_rendering_enabled, directx_initialized)
    /\ calls' = <<>> /\ args' = <<>>
    /\ UNCHANGED <<rvars, last_time, frame_time, now, releases, destroyed, origin>>

\* the exported update_animation(renderer, delta_time)
UpdateAnimation ==
    /\ Called
    /\ \E delta_time \in DeltaTimes : update_animation(delta_time) /\ args' = <<delta_time>>
    /\ op' = "update_animation" /\ result' = "void" /\ calls' = <<"update_animation">>
    /\ UNCHANGED <<width, height, frame_count, clear_color, Mode, Camera, origin,
                   animation_enabled, Devices, last_time, frame_time, now, destroyed>>

SetCameraOrbit ==
    /\ Called
    /\ \E a \in OrbitArgs :
          /\ camera_orbit_angle' = a[1]
          /\ camera_distance' = a[2]
          /\ camera_height' = a[3]
    /\ op' = "set_camera_orbit" /\ result' = "void" /\ calls' = <<>> /\ args' = <<>>
    /\ UNCHANGED <<width, height, frame_count, clear_color, Mode, cubes, origin,
                   animation_time, animation_enabled, Devices, last_time, frame_time, now,
                   destroyed>>

ToggleAnimation ==
    /\ Called
    /\ animation_enabled' = ~animation_enabled
    /\ op' = "toggle_animation" /\ result' = "void" /\ calls' = <<>> /\ args' = <<>>
    /\ UNCHANGED <<width, height, frame_count, clear_color, Mode, Scene, Camera,
                   Devices, last_time, frame_time, now, destroyed>>

MoveObject ==
    /\ Called
    /\ \E index \in 0..MaxCubes, a \in MoveArgs :
          /\ cubes' = move_object(cubes, index, a[1], a[2], a[3])
          /\ origin' = IF index < Len(cubes)
                       THEN [origin EXCEPT ![index + 1].moved = TRUE] ELSE origin
          /\ args' = <<index, a[1], a[2], a[3]>>
    /\ op' = "move_object" /\ result' = "void" /\ calls' = <<>>
    /\ UNCHANGED <<width, height, frame_count, clear_color, Mode, animation_time,
                   camera_orbit_angle, Camera, animation_enabled, Devices,
                   last_time, frame_time, now, destroyed>>

\* SimpleRenderer::~SimpleRenderer
Destroy ==
    /\ Called
    /\ destroyed' = TRUE
    /\ releases' = Release(Release(Release(releases, swap_chain, "swap_chain"),
                                   d3d_context, "d3d_context"),
                           d3d_device, "d3d_device")
    /\ op' = "~SimpleRenderer" /\ result' = "void" /\ calls' = <<>> /\ args' = <<>>
    /\ UNCHANGED <<rvars, last_time, frame_time, now, origin>>

Next ==
    \/ Tick
    \/ RenderFrame
    \/ Resize
    \/ AddCube
    \/ EnableNativeRendering
    \/ SetWindowHandle
    \/ InitializeD3D11
    \/ GetFrameCount
    \/ GetRendererInfo
    \/ UpdateAnimation
    \/ SetCameraOrbit
    \/ ToggleAnimation
    \/ MoveObject
    \/ Destroy

Spec == Init /\ [][Next]_vars

\* set_window_handle / enable_native_rendering / render_frame, then destruction
NextDevice ==
    \/ Tick
    \/ SetWindowHandle
    \/ EnableNativeRendering
    \/ RenderFrame
    \/ Destroy

SpecDevice == Init /\ [][NextDevice]_vars

\* ----------------------------------------------------------------- claims
\* the step is a call of operation name
Ran(name) == nops' = nops + 1 /\ op' = name

\* the last operation was an enable_native_rendering whose initialize_d3d11 failed / succeeded
EnableFailed == op = "enable_native_rendering" /\ calls = <<"initialize_d3d11", "failed">>
EnableOk     == op = "enable_native_rendering" /\ calls = <<"initialize_d3d11", "ok">>

\* the render paths among the things an operation executed
PathsIn(cs) == {i \in 1..Len(cs) : cs[i] \in Paths}

\* C1 (mode rollback): when enable_native_rendering has just returned and
\* initialize_d3d11 reported failure, native_rendering_enabled is false and
\* get_renderer_info reports the fallback renderer, whatever came before.
C1_ModeRollback ==
    EnableFailed =>
        /\ native_rendering_enabled = FALSE
        /\ get_renderer_info(native_rendering_enabled, directx_initialized) = Fallback

\* a failed enable after an earlier successful one
C1_Witness == EnableFailed /\ directx_initialized /\ Len(releases) > 0

\* C2 (exactly-one-path dispatch): every render_frame call executes exactly
\* one of the three render paths and increases frame_count by exactly 1, for
\* every combination of the two mode flags, animated or not.
C2_ExactlyOnePath ==
    [][ /\ Ran("render_frame") =>
            /\ Cardinality(PathsIn(calls')) = 1
            /\ frame_count' = frame_count + 1
        /\ \A native \in BOOLEAN, directx \in BOOLEAN :
              LET p == render_paths(native, directx)
              IN  Len(p) = 1 /\ p[1] \in Paths
      ]_vars

\* a frame rendered on the native path with animation paused
C2_Witness ==
    /\ op = "render_frame"
    /\ calls = <<"native_device", "clear_and_present">>
    /\ ~animation_enabled
    /\ frame_count = 1

\* C3 (idempotent pause), as claimed: while animation_enabled is false a call
\* of the stepper, through render_frame or through the exported
\* update_animation, changes no cube and not the camera orbit angle.
C3_PauseIsNoOp ==
    [][ (~animation_enabled /\ (Ran("render_frame") \/ Ran("update_animation")))
          => UNCHANGED <<cubes, camera_orbit_angle>> ]_vars

\* C4 (base-Y non-drift), as claimed: a cube that move_object never moved has
\* y = (the y it was created with) + 0.5 * sin(its phase).
C4_NoDrift ==
    \A i \in 1..Len(cubes) :
        ~origin[i].moved =>
            cubes[i].y = origin[i].y + Half(sin(cubes[i].animation_time))

\* the status the claim gives for each combination of the two flags
StatusTable(native, directx) ==
    CASE native /\ directx  -> "Native DirectX C++ Renderer (Animated)"
      [] native /\ ~directx -> "Native DirectX C++ Renderer (Initializing...)"
      [] ~native            -> "OpenGL Fallback C++ Renderer"

\* C5 (status is a pure function of the mode flags): get_renderer_info
\* returns the string its table gives for the two flags, whatever the rest of
\* the state is, and changes nothing.
C5_StatusPure ==
    [][ /\ Ran("get_renderer_info") =>
            /\ result' = StatusTable(native_rendering_enabled, directx_initialized)
            /\ UNCHANGED <<rvars, last_time, releases, destroyed, origin>>
        /\ \A native \in BOOLEAN, directx \in BOOLEAN :
              get_renderer_info(native, directx) = StatusTable(native, directx)
      ]_vars

\* the fallback status read while directx_initialized is still true, after frames and steps
C5_Witness ==
    /\ op = "get_renderer_info"
    /\ result = Fallback
    /\ directx_initialized
    /\ frame_count > 0

\* C6 (no observable pending mode): between operations the combination
\* (native_rendering_enabled, ~directx_initialized) never occurs; a completed
\* enable_native_rendering leaves both flags true on success and
\* native_rendering_enabled false on failure.
C6_NoPendingMode ==
    /\ ~(native_rendering_enabled /\ ~directx_initialized)
    /\ EnableOk => (native_rendering_enabled /\ directx_initialized)
    /\ EnableFailed => ~native_rendering_enabled

\* a successful enable on a renderer that has rendered frames
C6_Witness == EnableOk /\ native_rendering_enabled /\ directx_initialized /\ frame_count > 0

\* the things an operation executed, as a set
Executed(cs) == {cs[i] : i \in 1..Len(cs)}

\* C7 (no automatic retry), as claimed: a render_frame in fallback mode takes
\* the fallback path and returns true, and no operation other than
\* enable_native_rendering invokes initialize_d3d11 or changes a mode flag.
C7_OnlyEnableInitializes ==
    [][ /\ (Ran("render_frame") /\ ~native_rendering_enabled) =>
              (Executed(calls') \cap Paths = {"fallback"} /\ result' = TRUE)
        /\ (nops' = nops + 1 /\ op' # "enable_native_rendering") =>
              /\ "initialize_d3d11" \notin Executed(calls')
              /\ UNCHANGED Mode
      ]_vars

\* C7, amended: a render_frame in fallback mode takes the fallback path and
\* returns true; no operation other than enable_native_rendering and the
\* exported initialize_d3d11 itself invokes device initialization or touches
\* the device objects, and no operation other than enable_native_rendering
\* changes a mode flag.
C7_NoAutomaticRetry ==
    [][ /\ (Ran("render_frame") /\ ~native_rendering_enabled) =>
              (Executed(calls') \cap Paths = {"fallback"} /\ result' = TRUE)
        /\ (nops' = nops + 1 /\ op' \notin {"enable_native_rendering", "initialize_d3d11"}) =>
              /\ "initialize_d3d11" \notin Executed(calls')
              /\ UNCHANGED <<d3d_device, d3d_context, swap_chain>>
              /\ Len(releases') = Len(releases)
        /\ (nops' = nops + 1 /\ op' # "enable_native_rendering") =>
              UNCHANGED Mode
      ]_vars

\* a frame rendered on the fallback path after a successful and then a failed enable
C7_Witness ==
    /\ op = "render_frame"
    /\ "fallback" \in Executed(calls)
    /\ ~native_rendering_enabled
    /\ directx_initialized

\* every field of the renderer but the cube vector
NotCubes == <<width, height, frame_count, clear_color, native_rendering_enabled,
              animation_time, camera_orbit_angle, camera_distance, camera_height,
              animation_enabled, directx_initialized,
              window_handle, d3d_device, d3d_context, swap_chain>>

\* C8 (move_object): with an index >= cubes.size() the call changes nothing
\* and returns normally; with an index in range it sets x, y, z of that cube
\* and leaves its other fields, every other cube and the rest of the
\* renderer as they were.
C8_MoveObject ==
    [][ Ran("move_object") =>
          LET index == args'[1] IN
          /\ result' = "void"
          /\ UNCHANGED NotCubes
          /\ ~destroyed'
          /\ IF index >= Len(cubes)
             THEN UNCHANGED cubes
             ELSE /\ Len(cubes') = Len(cubes)
                  /\ \A i \in 1..Len(cubes) : i # index + 1 => cubes'[i] = cubes[i]
                  /\ cubes'[index + 1].x = args'[2]
                  /\ cubes'[index + 1].y = args'[3]
                  /\ cubes'[index + 1].z = args'[4]
                  /\ \A f \in {"size", "color", "rotation_speed", "animation_time"} :
                        cubes'[index + 1][f] = cubes[index + 1][f]
      ]_vars

\* move_object was called with index = cubes.size() on a two-cube renderer
C8_Witness == op = "move_object" /\ Len(cubes) = 2 /\ args[1] = 2

\* C9 (camera angle range), as claimed: after every run of the stepper the
\* camera orbit angle is in [0, 2*pi).
C9_AngleInRange ==
    [][ (nops' = nops + 1 /\ "update_animation" \in Executed(calls')) =>
            (0 <= camera_orbit_angle' /\ camera_orbit_angle' < TWO_PI) ]_vars

\* C10 (scoped device resources), as claimed: once the destructor has run,
\* every device, context and swap chain that an enable_native_rendering
\* acquired has been released exactly once.
C10_ReleasedOnce ==
    destroyed =>
        \A p \in 1..Len(releases) :
            releases[p] = [swap_chain |-> 1, d3d_context |-> 1, d3d_device |-> 1]

\* how many times e occurs in what an operation executed
Count(cs, e) == Cardinality({i \in 1..Len(cs) : cs[i] = e})

\* C11 (stepper ordering): a render_frame called while animation is enabled
\* runs update_animation exactly once, before the render path it dispatches
\* to; called while animation is disabled it does not run it.
C11_StepperFirst ==
    [][ Ran("render_frame") =>
          IF animation_enabled
          THEN /\ Count(calls', "update_animation") = 1
               /\ \A i, j \in 1..Len(calls') :
                     (calls'[i] = "update_animation" /\ calls'[j] \in Paths) => i < j
               /\ \E j \in 1..Len(calls') : calls'[j] \in Paths
          ELSE /\ Count(calls', "update_animation") = 0
               /\ UNCHANGED <<cubes, animation_time, camera_orbit_angle>>
      ]_vars

\* an animated frame on the native path: the stepper, then clear and present
C11_Witness ==
    /\ op = "render_frame"
    /\ calls = <<"update_animation", "native_device", "clear_and_present">>
    /\ animation_time > 0

\* C12 (smooth resume), as claimed: an animated render_frame that follows a
\* frame rendered while paused, on a renderer that was animated before the
\* pause, advances the animation clock, the camera angle and every cube's
\* phase by the time elapsed since that previous frame only, not by the time
\* spent paused.
C12_SmoothResume ==
    [][ ( /\ Ran("render_frame")
          /\ animation_enabled
          /\ last_time # Unset
          /\ frame_time # Unset ) =>
            LET elapsed == now - frame_time IN
            /\ animation_time' = animation_time + elapsed
            /\ \A i \in 1..Len(cubes) :
                  cubes'[i].animation_time =
                      cubes[i].animation_time + elapsed * (cubes[i].rotation_speed \div 1000)
            /\ (camera_orbit_angle + elapsed <= TWO_PI) =>
                  camera_orbit_angle' = camera_orbit_angle + elapsed
      ]_vars

\* the step ran the stepper: a render_frame with animation enabled, or the
\* exported update_animation
Stepped == nops' = nops + 1 /\ "update_animation" \in Executed(calls')

====
